---- MODULE Spec2Model ----
(***************************************************************************)
(* Model of nanobot/agent/tools/calendar.py (CalendarTool): the OAuth      *)
(* credential life cycle (_get_calendar_credentials), the retrying request *)
(* executor (_execute_with_retries) and the two request functions          *)
(* (fetch_events_call, create_event_call) with their inline refresh and    *)
(* replay on 401.                                                          *)
(***************************************************************************)
EXTENDS Integers, Naturals, Sequences, FiniteSets, TLC

\* ------------------------------------------------------------------ bounds
\* Number of access tokens the authorization server hands out in one run.
MaxIssued == 3
\* Largest retries argument explored (the schema allows up to 10).
MaxRetries == 3

\* ------------------------------------------------------- program constants
\* "retries": minimum 0 in the tool's parameter schema.
MinRetries == 0
\* backoff_base: float = 1.5, kept exact as the fraction 3/2.
BackoffNum == 3
BackoffDen == 2

\* "timeout": 1..600 in the schema, 60 the default; the value only travels
\* into the HTTP calls and the final message.
TimeoutChoices == {60}

\* The statuses the second handler clause lists as retryable.
RetryableStatuses == {401, 408, 429, 500, 502, 503, 504}

\* Statuses the remote API answers with in the model: success, 401, two
\* statuses outside RetryableStatuses and two inside it.
Statuses == {200, 400, 401, 404, 429, 503}

\* --------------------------------------------------------------- exceptions
\* An exception (or a response) is a record [cls, status, msg].
Exc(cls, status, msg) == [cls |-> cls, status |-> status, msg |-> msg]
NoError == Exc("None", 0, "")
Response(status) == Exc("Response", status, "")
HTTPError(status) == Exc("HTTPError", status, "")
RefreshError == Exc("RefreshError", 0, "")
ConsentError == Exc("ConsentError", 0, "")

\* The three RuntimeErrors _get_calendar_credentials raises.
CredentialsNotFoundRequest == Exc("RuntimeError", 0, "Credentials file not found; then run auth")
NotAuthorized == Exc("RuntimeError", 0, "Not authorized yet or token scope outdated; run auth")
CredentialsNotFoundAuth == Exc("RuntimeError", 0, "Credentials file not found; save it first")

\* Python's class hierarchy for the exception classes that can reach the
\* handler of _execute_with_retries: every requests exception derives from
\* RequestException, which derives from IOError, an alias of OSError;
\* socket.timeout and TimeoutError are OSErrors too.  RefreshError
\* (google.auth) derives from Exception only.
Superclasses(cls) ==
    CASE cls = "HTTPError"       -> {"HTTPError", "RequestException", "OSError", "Exception"}
      [] cls = "ConnectionError" -> {"ConnectionError", "RequestException", "OSError", "Exception"}
      [] cls = "Timeout"         -> {"Timeout", "RequestException", "OSError", "Exception"}
      [] cls = "TimeoutError"    -> {"TimeoutError", "OSError", "Exception"}
      [] cls = "RefreshError"    -> {"RefreshError", "Exception"}
      [] cls = "ConsentError"    -> {"ConsentError", "Exception"}
      [] cls = "RuntimeError"    -> {"RuntimeError", "Exception"}
      [] OTHER                   -> {}

\* isinstance(e, (c1, c2, ...))
IsInstance(e, classes) == Superclasses(e.cls) \cap classes /= {}

\* -------------------------------------------------------------- credentials
\* A credential: token (0 = None, otherwise the serial number of the access
\* token, larger = issued later), expired (expiry passed), refresh_token
\* (present or not) and what has_scopes(SCOPES) does on it.
ScopeChecks == {"sufficient", "insufficient", "raises"}

NoCreds == [token |-> 0, expired |-> FALSE, refresh_token |-> FALSE, scopes |-> "none"]

\* google.oauth2 Credentials.valid: token is not None and not expired.
Valid(c) == c.token /= 0 /\ ~c.expired

\* creds.refresh(Request()) succeeding: a new access token, a new expiry.
Refreshed(c, tok) == [c EXCEPT !.token = tok, !.expired = FALSE]

\* The token the consent flow yields for SCOPES.
FlowCreds(tok, withRefresh) ==
    [token |-> tok, expired |-> FALSE, refresh_token |-> withRefresh, scopes |-> "sufficient"]

has_required_scopes_unchecked(c) == TRUE

has_required_scopes_fail_closed(c) == c.scopes = "sufficient"

has_required_scopes(c) ==
    IF c.scopes = "raises" THEN TRUE ELSE c.scopes = "sufficient"

\* One run of _get_calendar_credentials.  file: the token file (NoCreds =
\* no file); credsExists: CREDENTIALS_PATH.exists(); refreshOk, flowOk: what
\* the authorization server / the user do; tok: the serial of the token a
\* success yields.  The result holds the outcome, the token file afterwards
\* and the log of the externally visible steps, in order.
CredResult(kind, error, c, file, log) ==
    [kind |-> kind, error |-> error, creds |-> c, file |-> file, log |-> log]

\* Lines 199-200: the persisted token is returned as it is.
valid_branch_resaved(c, file, load) ==
    CredResult("return", NoError, c, c, load \o <<"write">>)

valid_branch(c, file, load) ==
    CredResult("return", NoError, c, file, load)

\* Lines 202-206: refresh exchange, then the token file is rewritten, then
\* the refreshed credential is returned; a failing exchange raises out of
\* the function before the write.
refresh_branch_unsaved(c, file, load, refreshOk, tok) ==
    IF refreshOk
    THEN CredResult("return", NoError, Refreshed(c, tok), file, load \o <<"refresh">>)
    ELSE CredResult("raise", RefreshError, NoCreds, file, load \o <<"refresh">>)

refresh_branch(c, file, load, refreshOk, tok) ==
    IF refreshOk
    THEN CredResult("return", NoError, Refreshed(c, tok), Refreshed(c, tok),
                    load \o <<"refresh", "write">>)
    ELSE CredResult("raise", RefreshError, NoCreds, file, load \o <<"refresh">>)

\* Lines 208-218: the request path never prompts.
no_browser_branch_unchecked(file, load, credsExists) ==
    CredResult("raise", NotAuthorized, NoCreds, file, load)

no_browser_branch(file, load, credsExists) ==
    IF ~credsExists
    THEN CredResult("raise", CredentialsNotFoundRequest, NoCreds, file,
                    load \o <<"credentials_exists">>)
    ELSE CredResult("raise", NotAuthorized, NoCreds, file, load \o <<"credentials_exists">>)

\* Lines 220-235: the authorize path runs the consent flow and persists.
browser_branch_unsaved(file, load, credsExists, flowOk, flowRefresh, tok) ==
    IF ~credsExists
    THEN CredResult("raise", CredentialsNotFoundAuth, NoCreds, file,
                    load \o <<"credentials_exists">>)
    ELSE IF flowOk
    THEN CredResult("return", NoError, FlowCreds(tok, flowRefresh), file,
                    load \o <<"credentials_exists", "read_credentials", "flow">>)
    ELSE CredResult("raise", ConsentError, NoCreds, file,
                    load \o <<"credentials_exists", "read_credentials", "flow">>)

browser_branch_truncating(file, load, credsExists, flowOk, flowRefresh, tok) ==
    IF ~credsExists
    THEN CredResult("raise", CredentialsNotFoundAuth, NoCreds, file,
                    load \o <<"credentials_exists">>)
    ELSE IF flowOk
    THEN CredResult("return", NoError, FlowCreds(tok, flowRefresh), FlowCreds(tok, flowRefresh),
                    load \o <<"credentials_exists", "read_credentials", "write", "flow", "write">>)
    ELSE CredResult("raise", ConsentError, NoCreds, NoCreds,
                    load \o <<"credentials_exists", "read_credentials", "write", "flow">>)

browser_branch(file, load, credsExists, flowOk, flowRefresh, tok) ==
    IF ~credsExists
    THEN CredResult("raise", CredentialsNotFoundAuth, NoCreds, file,
                    load \o <<"credentials_exists">>)
    ELSE IF flowOk
    THEN CredResult("return", NoError, FlowCreds(tok, flowRefresh), FlowCreds(tok, flowRefresh),
                    load \o <<"credentials_exists", "read_credentials", "flow", "write">>)
    ELSE CredResult("raise", ConsentError, NoCreds, file,
                    load \o <<"credentials_exists", "read_credentials", "flow">>)

get_calendar_credentials(file, credsExists, allow_browser_auth, refreshOk, flowOk, flowRefresh, tok) ==
    LET c == file
        present == file /= NoCreds
        load == IF present THEN <<"load">> ELSE <<>>
    IN  IF present /\ Valid(c) /\ has_required_scopes(c)
        THEN valid_branch(c, file, load)
        ELSE IF present /\ c.expired /\ c.refresh_token /\ has_required_scopes(c)
        THEN refresh_branch(c, file, load, refreshOk, tok)
        ELSE IF ~allow_browser_auth
        THEN no_browser_branch(file, load, credsExists)
        ELSE browser_branch(file, load, credsExists, flowOk, flowRefresh, tok)

\* --------------------------------------------------------- request functions
\* What one HTTP call can do: answer with a status, or fail in transport
\* (requests.ConnectionError; requests.Timeout when the per-call timeout
\* expires mid-call).
HttpOutcomes ==
    {Response(st) : st \in Statuses} \cup {Exc("ConnectionError", 0, ""), Exc("Timeout", 0, "")}

NoOutcome == Exc("NotSent", 0, "")

\* response.raise_for_status()
raise_for_status(resp) == IF resp.status >= 400 THEN HTTPError(resp.status) ELSE NoError

\* The result of one invocation of a request function: the outcome, the
\* credential object afterwards, the serial of the newest token issued, the
\* HTTP requests sent (method and bearer token) and what each step did.
CallResult(kind, error, c, n, http, pre, first, mid, replay) ==
    [kind |-> kind, error |-> error, creds |-> c, issued |-> n, http |-> http,
     pre |-> pre, first |-> first, mid |-> mid, replay |-> replay]

NoCall == CallResult("none", NoError, NoCreds, 0, <<>>, "none", NoOutcome, "none", NoOutcome)

Sent(method, c) == [method |-> method, bearer |-> c.token]

\* Lines 310-316 / 358-364: the replay, c1 the credential of the first call
\* and c2 the refreshed one; the header is rebuilt from creds.token first.
replay_request_stale_header(method, c1, c2) == Sent(method, c1)

replay_request(method, c1, c2) == Sent(method, c2)

\* Lines 289-319 and 341-367 share their shape; method is "GET" or "POST".
\* c: creds as the invocation finds it; n: serial of the newest token issued;
\* preOk, midOk: whether the refresh exchanges succeed; r1, r2: what the
\* first call and the replay do.
request_call(method, c, n, preOk, r1, midOk, r2) ==
    LET needPre == ~Valid(c) /\ c.refresh_token
        c1 == IF needPre THEN Refreshed(c, n + 1) ELSE c
        n1 == IF needPre THEN n + 1 ELSE n
        pre == IF needPre THEN "ok" ELSE "none"
        c2 == Refreshed(c1, n1 + 1)
        one == <<Sent(method, c1)>>
        two == <<Sent(method, c1), replay_request(method, c1, c2)>>
    IN  IF needPre /\ ~preOk
        THEN CallResult("raise", RefreshError, c, n, <<>>, "fail", NoOutcome, "none", NoOutcome)
        ELSE IF r1.cls /= "Response"
        THEN CallResult("raise", r1, c1, n1, one, pre, r1, "none", NoOutcome)
        ELSE IF r1.status = 401 /\ c1.refresh_token
        THEN IF ~midOk
             THEN CallResult("raise", RefreshError, c1, n1, one, pre, r1, "fail", NoOutcome)
             ELSE IF r2.cls /= "Response"
             THEN CallResult("raise", r2, c2, n1 + 1, two, pre, r1, "ok", r2)
             ELSE IF raise_for_status(r2) /= NoError
             THEN CallResult("raise", raise_for_status(r2), c2, n1 + 1, two, pre, r1, "ok", r2)
             ELSE CallResult("return", NoError, c2, n1 + 1, two, pre, r1, "ok", r2)
        ELSE IF raise_for_status(r1) /= NoError
        THEN CallResult("raise", raise_for_status(r1), c1, n1, one, pre, r1, "none", NoOutcome)
        ELSE CallResult("return", NoError, c1, n1, one, pre, r1, "none", NoOutcome)

fetch_events_call(c, n, preOk, r1, midOk, r2) == request_call("GET", c, n, preOk, r1, midOk, r2)

create_event_call(c, n, preOk, r1, midOk, r2) == request_call("POST", c, n, preOk, r1, midOk, r2)

\* ------------------------------------------------------------------ executor
\* The except clauses of _execute_with_retries, tried in source order.
FirstClause == {"Timeout", "ConnectionError", "socket.timeout", "TimeoutError", "OSError"}
SecondClause == {"HTTPError"}

except_clauses_http_first(e) ==
    IF IsInstance(e, SecondClause)
    THEN IF e.status \notin RetryableStatuses THEN "raise" ELSE "retry"
    ELSE IF IsInstance(e, FirstClause)
    THEN "retry"
    ELSE "propagate"

except_clauses(e) ==
    IF IsInstance(e, FirstClause)
    THEN "retry"
    ELSE IF IsInstance(e, SecondClause)
    THEN IF e.status \notin RetryableStatuses THEN "raise" ELSE "retry"
    ELSE "propagate"

\* for attempt in range(retries + 1): is there a next value after attempt?
loop_continues_short(attempt_, retries_) == attempt_ + 1 < retries_

loop_continues_long(attempt_, retries_) == attempt_ + 1 < retries_ + 2

loop_continues(attempt_, retries_) == attempt_ + 1 < retries_ + 1

\* if attempt < retries: (line 267)
should_sleep_always(attempt_, retries_) == attempt_ <= retries_

should_sleep(attempt_, retries_) == attempt_ < retries_

RECURSIVE Pow(_, _)
Pow(b, k) == IF k = 0 THEN 1 ELSE b * Pow(b, k - 1)

\* time.sleep(backoff_base ** attempt), as an exact fraction; after: the
\* number of invocations of the request function made before the sleep.
Sleep(attempt_, after) ==
    [num |-> Pow(BackoffNum, attempt_), den |-> Pow(BackoffDen, attempt_), after |-> after]

\* How an invocation ends.
Outcome(kind, error, attempts, timeout_, cause) ==
    [kind |-> kind, error |-> error, attempts |-> attempts, timeout |-> timeout_, cause |-> cause]
NoOutcomeYet == Outcome("none", NoError, 0, 0, NoError)
Returned == Outcome("return", NoError, 0, 0, NoError)
Raised(e) == Outcome("raise", e, 0, 0, NoError)
\* raise TimeoutError(f"Request failed after {retries + 1} attempts with
\* timeout={timeout}s: {last_error}")
RequestFailed(retries_, timeout_, last) ==
    Outcome("raise", Exc("TimeoutError", 0, "Request failed after attempts"), retries_ + 1, timeout_, last)

\* The failures the executor's contract calls retryable: connection/timeout
\* failures of any kind, or an HTTP error whose status is retryable.
RetryableFailure(e) ==
    \/ e.cls \in {"ConnectionError", "Timeout"}
    \/ e.cls = "HTTPError" /\ e.status \in RetryableStatuses

\* ------------------------------------------------------------------ datetimes
\* A datetime: calendar day (a day number), wall clock hour, minute, second
\* (second also stands for the sub-second part) and, when aware,
\* the UTC offset in minutes.
DateTime(day, hour, minute, second, aware, off) ==
    [day |-> day, hour |-> hour, minute |-> minute, second |-> second,
     aware |-> aware, off |-> off]

\* The absolute instant of an aware datetime, in seconds: what Python
\* compares when both operands are aware.
Instant(dt) == ((dt.day * 24 + dt.hour) * 60 + dt.minute - dt.off) * 60 + dt.second

\* dt + timedelta(days=1)
PlusOneDay(dt) == [dt EXCEPT !.day = dt.day + 1]

\* datetime.replace(hour=, minute=, ...) raises ValueError outside 0..23 / 0..59.
ValidClock(hm) == hm.hour \in 0..23 /\ hm.minute \in 0..59

\* if start_dt <= now_local: (line 464)
start_rolls_forward_strict(start_dt, now_local) == Instant(start_dt) < Instant(now_local)

start_rolls_forward(start_dt, now_local) == Instant(start_dt) <= Instant(now_local)

\* if end_dt <= start_dt: (line 468)
end_rolls_forward_strict(end_dt, start_dt) == Instant(end_dt) < Instant(start_dt)

end_rolls_forward(end_dt, start_dt) == Instant(end_dt) <= Instant(start_dt)

\* _resolve_local_datetimes, with now_local = datetime.now().astimezone()
\* (aware, fixed offset) and the two clock times already split and
\* converted to integers.
resolve_local_datetimes(now_local, start_hm, end_hm) ==
    IF ~ValidClock(start_hm)
    THEN [kind |-> "raise", error |-> "ValueError"]
    ELSE LET start0 == [now_local EXCEPT !.hour = start_hm.hour, !.minute = start_hm.minute,
                                         !.second = 0]
             start_dt == IF start_rolls_forward(start0, now_local) THEN PlusOneDay(start0) ELSE start0
         IN  IF ~ValidClock(end_hm)
             THEN [kind |-> "raise", error |-> "ValueError"]
             ELSE LET end0 == [start_dt EXCEPT !.hour = end_hm.hour, !.minute = end_hm.minute]
                      end_dt == IF end_rolls_forward(end0, start_dt) THEN PlusOneDay(end0) ELSE end0
                  IN  [kind |-> "return", start |-> start_dt, end |-> end_dt]

\* ------------------------------------------------------------ free-text parser
\* A text is a sequence of characters.  ASCII characters stand for
\* themselves; the other characters of the source are named:
\*   "dao" U+5230, "zhi" U+81F3 (the two separators meaning "to"),
\*   "de" U+7684, "shi" U+4E8B, "xiang" U+9879, "jian" U+4EF6, "ri" U+65E5,
\*   "cheng" U+7A0B, "an" U+5B89, "pai" U+6392 (the filler suffixes),
\*   "pao" U+8DD1, "bu" U+6B65, "kai" U+5F00, "hui" U+4F1A (title words),
\*   "fw," U+FF0C, "fw." U+3002, "fw?" U+FF1F, "fw:" U+FF1A, "fw;" U+FF1B.
Digits == {"0", "1", "2", "3", "4", "5", "6", "7", "8", "9"}
Whitespace == {" "}
\* [-~ U+5230 U+81F3] of TIME_RANGE_PATTERN
Separators == {"-", "~", "dao", "zhi"}
\* the argument of lstrip in _normalize_title_text
LeadingPunctuation == {"fw,", ",", "fw.", ".", "!", "?", "fw?", "fw:", ":", ";", "fw;", " "}
\* the suffixes of _normalize_title_text, in the order of the for loop
FillerSuffixes ==
    <<(<<"de", "shi", "xiang">>), (<<"shi", "xiang">>), (<<"shi", "jian">>),
      (<<"ri", "cheng">>), (<<"an", "pai">>)>>
UntitledEvent == <<"Untitled Event">>

DigitValue(ch) ==
    CASE ch = "0" -> 0 [] ch = "1" -> 1 [] ch = "2" -> 2 [] ch = "3" -> 3 [] ch = "4" -> 4
      [] ch = "5" -> 5 [] ch = "6" -> 6 [] ch = "7" -> 7 [] ch = "8" -> 8 [] ch = "9" -> 9

\* The character at position i, "" past either end.
At(t, i) == IF i \in 1..Len(t) THEN t[i] ELSE ""

\* \s* from position i: the first position that holds no whitespace.
RECURSIVE SkipSpaces(_, _)
SkipSpaces(t, i) == IF At(t, i) \in Whitespace THEN SkipSpaces(t, i + 1) ELSE i

\* \d{n}:\d{2} at position i
ClockAt(t, i, n) ==
    /\ \A k \in 0..(n - 1) : At(t, i + k) \in Digits
    /\ At(t, i + n) = ":"
    /\ At(t, i + n + 1) \in Digits
    /\ At(t, i + n + 2) \in Digits

\* \s*[sep]\s*(?P<end>\d{1,2}:\d{2}) from position j; \d{1,2} is greedy.
RestAt(t, j) ==
    LET k == SkipSpaces(t, j)
        e == SkipSpaces(t, k + 1)
    IN  IF At(t, k) \notin Separators
        THEN [ok |-> FALSE, from |-> 0, to |-> 0]
        ELSE IF ClockAt(t, e, 2) THEN [ok |-> TRUE, from |-> e, to |-> e + 4]
        ELSE IF ClockAt(t, e, 1) THEN [ok |-> TRUE, from |-> e, to |-> e + 3]
        ELSE [ok |-> FALSE, from |-> 0, to |-> 0]

NoMatch == [ok |-> FALSE, start |-> <<>>, end |-> <<>>, stop |-> 0]

\* The pattern anchored at position i: two start digits first, then one.
MatchAt(t, i) ==
    IF ClockAt(t, i, 2) /\ RestAt(t, i + 5).ok
    THEN [ok |-> TRUE, start |-> SubSeq(t, i, i + 4),
          end |-> SubSeq(t, RestAt(t, i + 5).from, RestAt(t, i + 5).to),
          stop |-> RestAt(t, i + 5).to]
    ELSE IF ClockAt(t, i, 1) /\ RestAt(t, i + 4).ok
    THEN [ok |-> TRUE, start |-> SubSeq(t, i, i + 3),
          end |-> SubSeq(t, RestAt(t, i + 4).from, RestAt(t, i + 4).to),
          stop |-> RestAt(t, i + 4).to]
    ELSE NoMatch

\* TIME_RANGE_PATTERN.search(text): the leftmost position that matches.
RECURSIVE SearchFrom(_, _)
SearchFrom(t, i) ==
    IF i > Len(t) THEN NoMatch
    ELSE IF MatchAt(t, i).ok THEN MatchAt(t, i)
    ELSE SearchFrom(t, i + 1)

RECURSIVE LStrip(_, _)
LStrip(t, chars) == IF t /= <<>> /\ Head(t) \in chars THEN LStrip(Tail(t), chars) ELSE t

RECURSIVE RStrip(_, _)
RStrip(t, chars) ==
    IF t /= <<>> /\ t[Len(t)] \in chars THEN RStrip(SubSeq(t, 1, Len(t) - 1), chars) ELSE t

\* str.strip()
Strip(t) == RStrip(LStrip(t, Whitespace), Whitespace)

\* str.endswith(suffix)
EndsWith(t, suffix) ==
    Len(t) >= Len(suffix) /\ SubSeq(t, Len(t) - Len(suffix) + 1, Len(t)) = suffix

\* The loop without its break: suffixes are cut off as long as one ends the text.
RECURSIVE strip_every_suffix(_, _)
strip_every_suffix(t, k) ==
    IF k > Len(FillerSuffixes) THEN t
    ELSE IF EndsWith(t, FillerSuffixes[k])
    THEN strip_every_suffix(Strip(SubSeq(t, 1, Len(t) - Len(FillerSuffixes[k]))), 1)
    ELSE strip_every_suffix(t, k + 1)

\* The for loop of _normalize_title_text from the k-th suffix on: the first
\* suffix the text ends with is cut off, then break.
RECURSIVE strip_first_suffix(_, _)
strip_first_suffix(t, k) ==
    IF k > Len(FillerSuffixes) THEN t
    ELSE IF EndsWith(t, FillerSuffixes[k])
    THEN Strip(SubSeq(t, 1, Len(t) - Len(FillerSuffixes[k])))
    ELSE strip_first_suffix(t, k + 1)

normalize_title_text(title) ==
    strip_first_suffix(LStrip(Strip(title), LeadingPunctuation), 1)

\* int(part) on a run of digits
RECURSIVE IntOf(_)
IntOf(ds) == IF ds = <<>> THEN 0 ELSE IntOf(SubSeq(ds, 1, Len(ds) - 1)) * 10 + DigitValue(ds[Len(ds)])

\* [int(part) for part in hm.split(":", 1)] on a matched group
RECURSIVE ColonAt(_, _)
ColonAt(t, i) == IF At(t, i) = ":" THEN i ELSE ColonAt(t, i + 1)

SplitClock(hm) ==
    [hour |-> IntOf(SubSeq(hm, 1, ColonAt(hm, 1) - 1)),
     minute |-> IntOf(SubSeq(hm, ColonAt(hm, 1) + 1, Len(hm)))]

\* An ISO datetime string, by its parts: form "iso", "malformed" or "empty"
\* (None or blank), the date and time fields, and the offset text ("" when
\* the string has none).
IsoText(form, day, hour, minute, second, tz) ==
    [form |-> form, day |-> day, hour |-> hour, minute |-> minute, second |-> second, tz |-> tz]
EmptyText == IsoText("empty", 0, 0, 0, 0, "")
MalformedText == IsoText("malformed", 0, 0, 0, 0, "")

\* The offset part of datetime.isoformat() and its reading by fromisoformat.
OffsetText(off) ==
    CASE off = 0 -> "+00:00" [] off = 60 -> "+01:00" [] off = 480 -> "+08:00"
      [] off = -300 -> "-05:00"

OffsetMinutes(tz) ==
    CASE tz = "+00:00" -> 0 [] tz = "+01:00" -> 60 [] tz = "+08:00" -> 480
      [] tz = "-05:00" -> -300

\* datetime.isoformat() of an aware datetime
isoformat(dt) == IsoText("iso", dt.day, dt.hour, dt.minute, dt.second, OffsetText(dt.off))

\* value.replace("Z", "+00:00")
ReplaceZ(value) == IF value.tz = "Z" THEN [value EXCEPT !.tz = "+00:00"] ELSE value

\* datetime.fromisoformat on a well-formed string
fromisoformat(value) ==
    IF value.tz = ""
    THEN DateTime(value.day, value.hour, value.minute, value.second, FALSE, 0)
    ELSE DateTime(value.day, value.hour, value.minute, value.second, TRUE, OffsetMinutes(value.tz))

\* _parse_create_text(text) at the local moment now_local
parse_create_text(text, now_local) ==
    LET match == SearchFrom(text, 1)
        tail == Strip(SubSeq(text, match.stop + 1, Len(text)))
        normalized == normalize_title_text(tail)
        title == IF normalized = <<>> THEN UntitledEvent ELSE normalized
        resolved == resolve_local_datetimes(now_local, SplitClock(match.start), SplitClock(match.end))
    IN  IF ~match.ok
        THEN [kind |-> "raise", error |-> "RuntimeError: Could not parse time range from text"]
        ELSE IF resolved.kind = "raise"
        THEN [kind |-> "raise", error |-> resolved.error]
        ELSE [kind |-> "return", title |-> title, start |-> isoformat(resolved.start),
              end |-> isoformat(resolved.end)]

\* _parse_iso_datetime_with_timezone(value, field_name)
parse_iso_datetime_with_timezone(value) ==
    IF value.form /= "iso"
    THEN [kind |-> "raise", error |-> "ValueError: Invalid isoformat string"]
    ELSE LET parsed == fromisoformat(ReplaceZ(value))
         IN  IF ~parsed.aware
             THEN [kind |-> "raise", error |-> "RuntimeError: timezone is required in ISO datetime"]
             ELSE [kind |-> "return", value |-> parsed]

\* end_dt <= start_dt read on the wall clocks, offsets left out
end_not_after_start_wall_clock(start_dt, end_dt) ==
    Instant([end_dt EXCEPT !.off = 0]) <= Instant([start_dt EXCEPT !.off = 0])

\* end_dt <= start_dt on two aware datetimes: compared as instants
end_not_after_start(start_dt, end_dt) == Instant(end_dt) <= Instant(start_dt)

\* _resolve_create_payload at the local moment now_local. None and "" are
\* both the empty sequence (title, location, description, text) or
\* EmptyText (start, end).
resolve_create_payload(title, start, end, location, description, text, now_local) ==
    LET given_title == Strip(title)
        both_given == start.form /= "empty" /\ end.form /= "empty"
        parsed == parse_create_text(text, now_local)
        resolved_title == IF both_given \/ given_title /= <<>> THEN given_title ELSE parsed.title
        resolved_start == IF start.form /= "empty" THEN start ELSE parsed.start
        resolved_end == IF end.form /= "empty" THEN end ELSE parsed.end
        start_dt == parse_iso_datetime_with_timezone(resolved_start)
        end_dt == parse_iso_datetime_with_timezone(resolved_end)
    IN  IF ~both_given /\ text = <<>>
        THEN [kind |-> "raise", error |-> "RuntimeError: provide either start+end ISO datetimes or text"]
        ELSE IF ~both_given /\ parsed.kind = "raise"
        THEN [kind |-> "raise", error |-> parsed.error]
        ELSE IF resolved_title = <<>>
        THEN [kind |-> "raise", error |-> "RuntimeError: Missing title for action=create."]
        ELSE IF start_dt.kind = "raise"
        THEN [kind |-> "raise", error |-> start_dt.error]
        ELSE IF end_dt.kind = "raise"
        THEN [kind |-> "raise", error |-> end_dt.error]
        ELSE IF end_not_after_start(start_dt.value, end_dt.value)
        THEN [kind |-> "raise", error |-> "RuntimeError: Invalid time range: end must be later than start."]
        ELSE [kind |-> "return",
              payload |-> [summary |-> resolved_title,
                           start |-> isoformat(start_dt.value),
                           end |-> isoformat(end_dt.value),
                           location |-> location,
                           description |-> description]]

\* An all-day date string ("2026-01-01": no "T" in it).
DateText(day) == IsoText("date", day, 0, 0, 0, "")

\* The marker chain of _format_events on time_until, kept in seconds
\* (time_until < 30 minutes is seconds < 30 * 60); every bound inclusive.
urgency_marker_inclusive(seconds) ==
    IF seconds <= 30 * 60 THEN "[urgent]"
    ELSE IF seconds <= 60 * 60 THEN "[soon]"
    ELSE IF seconds <= 120 * 60 THEN "[upcoming]"
    ELSE ""

\* The marker chain of _format_events on time_until, kept in seconds.
urgency_marker(seconds) ==
    IF seconds < 30 * 60 THEN "[urgent]"
    ELSE IF seconds < 60 * 60 THEN "[soon]"
    ELSE IF seconds < 120 * 60 THEN "[upcoming]"
    ELSE ""

\* The "(in ...)" part: int(time_until // 60) hours and int(time_until % 60)
\* minutes of a positive time_until, "Xh Ym" when hours > 0, else "Ym".
NoCountdown == [shown |-> FALSE, form |-> "", hours |-> 0, mins |-> 0]
countdown(seconds) ==
    IF 0 < seconds /\ seconds < 120 * 60
    THEN LET hours == (seconds \div 60) \div 60
             mins == (seconds \div 60) % 60
         IN  [shown |-> TRUE, form |-> IF hours > 0 THEN "Xh Ym" ELSE "Ym",
              hours |-> IF hours > 0 THEN hours ELSE 0, mins |-> mins]
    ELSE NoCountdown

\* strftime("%H:%M") of a datetime: its own wall clock
strftime(dt) == [hour |-> dt.hour, minute |-> dt.minute]
NoClock == [hour |-> 0, minute |-> 0]

\* One line of _format_events, for an event that has start and end.
format_line(event, now) ==
    IF event.start.form = "iso"
    THEN LET start_dt == fromisoformat(ReplaceZ(event.start))
             end_dt == fromisoformat(ReplaceZ(event.end))
             time_until == Instant(start_dt) - Instant(now)
         IN  [marker |-> urgency_marker(time_until), timed |-> TRUE,
              start_str |-> strftime(start_dt), end_str |-> strftime(end_dt),
              title |-> event.summary, countdown |-> countdown(time_until),
              location |-> event.location]
    ELSE [marker |-> "[all-day]", timed |-> FALSE, start_str |-> NoClock, end_str |-> NoClock,
          title |-> event.summary, countdown |-> NoCountdown, location |-> event.location]

\* if not start_time or not end_time: continue
HasTimes(event) == event.start.form /= "empty" /\ event.end.form /= "empty"

\* _format_events(events) at the UTC moment now
format_events(events, now) ==
    IF events = <<>>
    THEN [kind |-> "HEARTBEAT_OK - No events today", lines |-> <<>>]
    ELSE LET kept == SelectSeq(events, HasTimes)
         IN  [kind |-> "Calendar", lines |-> [i \in 1..Len(kept) |-> format_line(kept[i], now)]]

\* --------------------------------------------------------------------- state
VARIABLES
    tokenFile,   \* TOKEN_PATH: NoCreds when absent, else the pickled credential
    credsFile,   \* CREDENTIALS_PATH.exists()
    issued,      \* serial of the newest access token the server has issued
    lastFresh,   \* serial of the token of the last successful refresh/authorization
    pc,          \* "idle", "loop" (inside the for loop of the executor), "done"
    action,      \* "auth", "today", "create"; "none" when idle
    timeout,     \* the invocation's timeout argument
    retries,     \* the invocation's retries argument
    attempt,     \* the loop variable of _execute_with_retries
    calls,       \* invocations of the request function so far
    sleeps,      \* the time.sleep calls so far, in order
    last_error,  \* the local last_error
    creds,       \* the credential object the request function closes over
    credRun,     \* the run of _get_calendar_credentials of this invocation
    credIn,      \* the token file and allow_browser_auth that run started from
    call,        \* the latest invocation of the request function
    httpCount,   \* HTTP requests sent by this invocation
    outcome,     \* how the invocation body ended
    output,      \* the string the invocation boundary returns
    calc,        \* the application of a pure helper under study: its input
                 \* and, once applied, its result
    priorRetryable \* history: every invocation of the request function before
                 \* the latest one failed with a connection/timeout failure or
                 \* an HTTP status of RetryableStatuses

vars == <<tokenFile, credsFile, issued, lastFresh, pc, action, timeout, retries, attempt,
          calls, sleeps, last_error, creds, credRun, credIn, call, httpCount, outcome, output,
          calc, priorRetryable>>

NoCredRun == CredResult("none", NoError, NoCreds, NoCreds, <<>>)
NoCredIn == [file |-> NoCreds, allow |-> FALSE, credsExists |-> FALSE, flowOk |-> FALSE,
             flowRefresh |-> FALSE, refreshOk |-> FALSE, tok |-> 0]
NoOutput == [prefix |-> "", hint |-> ""]
NoCalc == [fn |-> "none"]

\* Token files a previous session can have left behind.
StoredCreds ==
    [token : {0, 1}, expired : BOOLEAN, refresh_token : BOOLEAN, scopes : ScopeChecks]

Init ==
    /\ tokenFile \in {NoCreds} \cup StoredCreds
    /\ credsFile \in BOOLEAN
    /\ issued = tokenFile.token
    /\ lastFresh = tokenFile.token
    /\ pc = "idle"
    /\ action = "none"
    /\ timeout = 0
    /\ retries = 0
    /\ attempt = 0
    /\ calls = 0
    /\ sleeps = <<>>
    /\ last_error = NoError
    /\ creds = NoCreds
    /\ credRun = NoCredRun
    /\ credIn = NoCredIn
    /\ call = NoCall
    /\ httpCount = 0
    /\ outcome = NoOutcomeYet
    /\ output = NoOutput
    /\ calc = NoCalc
    /\ priorRetryable = TRUE

\* ------------------------------------------------------ invocation boundary
\* _authorize: success message, or "Error: {e}" for any exception.
authorize_output(o) ==
    IF o.kind = "return"
    THEN [prefix |-> "Authorization successful", hint |-> ""]
    ELSE [prefix |-> "Error", hint |-> ""]

\* _get_today_output: except TimeoutError, then except Exception.
get_today_output(o) ==
    IF o.kind = "return"
    THEN [prefix |-> "events", hint |-> ""]
    ELSE IF IsInstance(o.error, {"TimeoutError"})
    THEN [prefix |-> "Timeout Error", hint |-> "check connection; try again; run auth"]
    ELSE [prefix |-> "Error", hint |-> "run auth again"]

\* _create_event_output: except TimeoutError, then except Exception.
create_event_output(o) ==
    IF o.kind = "return"
    THEN [prefix |-> "Created calendar event successfully", hint |-> ""]
    ELSE IF IsInstance(o.error, {"TimeoutError"})
    THEN [prefix |-> "Timeout Error", hint |-> ""]
    ELSE [prefix |-> "Error", hint |-> "run auth to refresh token scopes"]

boundary(act, o) ==
    CASE act = "auth"   -> authorize_output(o)
      [] act = "today"  -> get_today_output(o)
      [] act = "create" -> create_event_output(o)

\* ------------------------------------------------------------------- actions
\* The credential phase shared by the three entry points: one run of
\* _get_calendar_credentials against the token file.
ObtainCredentials(act, allow, refreshOk, flowOk, flowRefresh) ==
    LET run == get_calendar_credentials(tokenFile, credsFile, allow, refreshOk, flowOk,
                                        flowRefresh, issued + 1)
        fresh == run.kind = "return" /\ run.creds.token = issued + 1
    IN  /\ pc = "idle"
        /\ (fresh => issued < MaxIssued)
        /\ action' = act
        /\ credRun' = run
        /\ credIn' = [file |-> tokenFile, allow |-> allow, credsExists |-> credsFile,
                      flowOk |-> flowOk, flowRefresh |-> flowRefresh, refreshOk |-> refreshOk,
                      tok |-> issued + 1]
        /\ tokenFile' = run.file
        /\ issued' = IF fresh THEN issued + 1 ELSE issued
        /\ lastFresh' = IF fresh THEN issued + 1 ELSE lastFresh
        /\ creds' = run.creds
        /\ UNCHANGED <<credsFile, calc>>

\* execute(action="auth"): _authorize, whole.
Authorize ==
    \E refreshOk, flowOk, flowRefresh \in BOOLEAN :
        /\ ObtainCredentials("auth", TRUE, refreshOk, flowOk, flowRefresh)
        /\ pc' = "done"
        /\ outcome' = IF credRun'.kind = "return" THEN Returned ELSE Raised(credRun'.error)
        /\ output' = authorize_output(outcome')
        /\ UNCHANGED <<timeout, retries, attempt, calls, sleeps, last_error, call, httpCount,
                       priorRetryable>>

\* execute(action="today" | "create") up to the entry of the retry loop:
\* _get_calendar_credentials(allow_browser_auth=False), then
\* _execute_with_retries starts with last_error = None.
Begin(act) ==
    \E refreshOk \in BOOLEAN, t \in TimeoutChoices, r \in MinRetries..MaxRetries :
        /\ ObtainCredentials(act, FALSE, refreshOk, FALSE, FALSE)
        /\ timeout' = t
        /\ retries' = r
        /\ attempt' = 0
        /\ last_error' = NoError
        /\ IF credRun'.kind = "return"
           THEN /\ pc' = "loop"
                /\ UNCHANGED <<outcome, output>>
           ELSE /\ pc' = "done"
                /\ outcome' = Raised(credRun'.error)
                /\ output' = boundary(act, outcome')
        /\ UNCHANGED <<calls, sleeps, call, httpCount, priorRetryable>>

BeginToday == Begin("today")

BeginCreate == Begin("create")

\* One iteration of the for loop of _execute_with_retries: the request
\* function is invoked, its exception (if any) goes through the except
\* clauses, and the backoff sleep follows when attempt < retries.  The
\* iteration with attempt = retries that does not return falls out of the
\* loop into the final raise.  expNow: the access token's expiry passes
\* before this invocation.
Attempt ==
    \E expNow \in (IF Valid(creds) THEN BOOLEAN ELSE {FALSE}) :
    \E preOk \in (IF expNow /\ creds.refresh_token THEN BOOLEAN ELSE {TRUE}) :
    \E r1 \in HttpOutcomes :
    \E midOk \in (IF r1 = Response(401) /\ creds.refresh_token THEN BOOLEAN ELSE {TRUE}) :
    \E r2 \in (IF r1 = Response(401) /\ creds.refresh_token /\ midOk THEN HttpOutcomes ELSE {NoOutcome}) :
        LET c0 == IF expNow THEN [creds EXCEPT !.expired = TRUE] ELSE creds
            res == IF action = "today"
                   THEN fetch_events_call(c0, issued, preOk, r1, midOk, r2)
                   ELSE create_event_call(c0, issued, preOk, r1, midOk, r2)
            clause == except_clauses(res.error)
        IN  /\ pc = "loop"
            /\ res.issued <= MaxIssued
            /\ call' = res
            /\ calls' = calls + 1
            /\ httpCount' = httpCount + Len(res.http)
            /\ creds' = res.creds
            /\ issued' = res.issued
            /\ lastFresh' = IF res.issued > issued THEN res.issued ELSE lastFresh
            /\ IF res.kind = "return"
               THEN /\ pc' = "done"
                    /\ outcome' = Returned
                    /\ UNCHANGED <<attempt, sleeps, last_error>>
               ELSE IF clause = "retry"
               THEN /\ last_error' = res.error
                    /\ sleeps' = IF should_sleep(attempt, retries)
                                 THEN Append(sleeps, Sleep(attempt, calls'))
                                 ELSE sleeps
                    /\ IF loop_continues(attempt, retries)
                       THEN /\ attempt' = attempt + 1
                            /\ pc' = "loop"
                            /\ UNCHANGED outcome
                       ELSE /\ pc' = "done"
                            /\ outcome' = RequestFailed(retries, timeout, res.error)
                            /\ UNCHANGED attempt
               ELSE /\ pc' = "done"
                    /\ outcome' = Raised(res.error)
                    /\ UNCHANGED <<attempt, sleeps, last_error>>
            /\ output' = IF pc' = "done" THEN boundary(action, outcome') ELSE output
            /\ priorRetryable' = (calls = 0 \/ (priorRetryable /\ RetryableFailure(call.error)))
            /\ UNCHANGED <<tokenFile, credsFile, action, timeout, retries, credRun, credIn, calc>>

\* The invocation's string has been handed back; the tool is ready for the
\* next invocation.  Nothing of the invocation survives but the token file.
Finish ==
    /\ pc = "done"
    /\ pc' = "idle"
    /\ action' = "none"
    /\ timeout' = 0
    /\ retries' = 0
    /\ attempt' = 0
    /\ calls' = 0
    /\ sleeps' = <<>>
    /\ last_error' = NoError
    /\ creds' = NoCreds
    /\ credRun' = NoCredRun
    /\ credIn' = NoCredIn
    /\ call' = NoCall
    /\ httpCount' = 0
    /\ outcome' = NoOutcomeYet
    /\ output' = NoOutput
    /\ calc' = NoCalc
    /\ priorRetryable' = TRUE
    /\ UNCHANGED <<tokenFile, credsFile, issued, lastFresh>>

\* Between invocations the stored access token's expiry passes.
TokenExpires ==
    /\ pc = "idle"
    /\ tokenFile /= NoCreds
    /\ tokenFile.token /= 0
    /\ ~tokenFile.expired
    /\ tokenFile' = [tokenFile EXCEPT !.expired = TRUE]
    /\ UNCHANGED <<credsFile, issued, lastFresh, pc, action, timeout, retries, attempt, calls,
                   sleeps, last_error, creds, credRun, credIn, call, httpCount, outcome, output,
                   calc, priorRetryable>>

\* Between invocations the operator saves the OAuth client credentials file.
InstallCredentials ==
    /\ pc = "idle"
    /\ ~credsFile
    /\ credsFile' = TRUE
    /\ UNCHANGED <<tokenFile, issued, lastFresh, pc, action, timeout, retries, attempt, calls,
                   sleeps, last_error, creds, credRun, credIn, call, httpCount, outcome, output,
                   calc, priorRetryable>>

Next ==
    \/ Authorize
    \/ BeginToday
    \/ BeginCreate
    \/ Attempt
    \/ Finish
    \/ TokenExpires
    \/ InstallCredentials

Spec == Init /\ [][Next]_vars

TypeOK ==
    /\ pc \in {"idle", "loop", "done"}
    /\ action \in {"none", "auth", "today", "create"}
    /\ issued \in 0..MaxIssued
    /\ lastFresh \in 0..MaxIssued
    /\ attempt \in 0..MaxRetries
    /\ calls \in 0..(MaxRetries + 1)

\* ============================================================ properties
InFlight == pc \in {"loop", "done"} /\ action \in {"today", "create"}
CalledOnce == InFlight /\ calls >= 1

\* The error taxonomy, read off the concrete exceptions.
IsConfigError(e) == e \in {CredentialsNotFoundRequest, CredentialsNotFoundAuth}
IsAuthError(e) == e = NotAuthorized \/ e.cls \in {"RefreshError", "ConsentError"}
IsTransientError(o) == o.kind = "raise" /\ o.error.cls = "TimeoutError" /\ o.attempts >= 1

\* The sleep the j-th backoff is meant to be: backoffBase^(j-1), taken after
\* the j-th invocation.
ExpectedSleep(j) == [num |-> Pow(BackoffNum, j - 1), den |-> Pow(BackoffDen, j - 1), after |-> j]

\* ---- C1
\* C1: whenever the request function raises an HTTP error whose status is not
\* in {401, 408, 429, 500, 502, 503, 504}, that same error is re-raised at
\* once: the invocation is over with exactly that error as its outcome (not
\* TransientError), no backoff sleep follows the failing invocation and the
\* request function is not invoked again.
C1_NonRetryableRaisedImmediately ==
    (CalledOnce /\ call.kind = "raise" /\ call.error.cls = "HTTPError"
                /\ call.error.status \notin RetryableStatuses)
    => /\ pc = "done"
       /\ outcome = Raised(call.error)
       /\ \A j \in 1..Len(sleeps) : sleeps[j].after < calls

\* ---- C2
\* C2: when every invocation of the request function so far failed with a
\* retryable failure, the executor has made at most retries+1 invocations
\* and has returned nothing; while the loop runs, calls equals the attempt
\* index (so the next iteration is an invocation with attempt <= retries),
\* and when it ends it has made exactly retries+1 invocations and fails with
\* TransientError carrying retries+1, the configured timeout and the last
\* underlying error.
C2_ExhaustionAfterRetriesPlusOne ==
    (CalledOnce /\ priorRetryable /\ call.kind = "raise" /\ RetryableFailure(call.error))
    => /\ calls <= retries + 1
       /\ outcome.kind /= "return"
       /\ pc = "loop" => (calls = attempt /\ attempt <= retries)
       /\ pc = "done" => /\ calls = retries + 1
                         /\ IsTransientError(outcome)
                         /\ outcome.attempts = retries + 1
                         /\ outcome.timeout = timeout
                         /\ outcome.cause = call.error
                         /\ last_error = call.error

C2_Witness ==
    /\ pc = "done" /\ action = "today" /\ retries = 2 /\ calls = 3
    /\ priorRetryable /\ call.error = Exc("Timeout", 0, "")
    /\ last_error = Exc("Timeout", 0, "")
    /\ outcome = RequestFailed(2, timeout, Exc("Timeout", 0, ""))

\* ---- C3
\* C3: sleeps only ever separate invocations: the j-th sleep lasts
\* backoffBase^(j-1) and comes right after the j-th invocation, there are at
\* most retries sleeps, while the loop runs every sleep taken is followed by
\* a further invocation, and once the invocation is over there is one sleep
\* fewer than invocations (none after the last permitted attempt, none after
\* a success).  So a run failing retryably k-1 times and succeeding on
\* invocation k returns the result after exactly k-1 sleeps with exponents
\* 0..k-2.
C3_BackoffBetweenAttempts ==
    InFlight
    => /\ Len(sleeps) <= retries
       /\ \A j \in 1..Len(sleeps) : sleeps[j] = ExpectedSleep(j)
       /\ pc = "loop" => Len(sleeps) = calls
       /\ (pc = "done" /\ calls >= 1) => Len(sleeps) = calls - 1
       /\ (pc = "done" /\ calls >= 1 /\ priorRetryable /\ call.kind = "return")
          => /\ outcome = Returned
             /\ calls <= retries + 1
             /\ Len(sleeps) = calls - 1

C3_Witness ==
    /\ pc = "done" /\ retries = 3 /\ calls = 4
    /\ priorRetryable /\ last_error = Exc("ConnectionError", 0, "")
    /\ call.kind = "return" /\ outcome = Returned
    /\ sleeps = <<[num |-> 1, den |-> 1, after |-> 1], [num |-> 3, den |-> 2, after |-> 2],
                  [num |-> 9, den |-> 4, after |-> 3]>>

\* ---- C4
\* C4: with retries = 0, a request function that fails with a connection or
\* timeout failure or with any HTTP error status, retryable or not, makes
\* the executor raise TransientError after exactly one invocation and
\* without sleeping.
C4_ZeroRetriesTransientError ==
    (CalledOnce /\ retries = 0 /\ call.kind = "raise"
                /\ call.error.cls \in {"ConnectionError", "Timeout", "HTTPError"})
    => /\ pc = "done"
       /\ calls = 1
       /\ sleeps = <<>>
       /\ IsTransientError(outcome)
       /\ outcome = RequestFailed(0, timeout, call.error)

C4_Witness ==
    /\ pc = "done" /\ retries = 0 /\ calls = 1 /\ sleeps = <<>>
    /\ call.error = HTTPError(404)
    /\ outcome = RequestFailed(0, timeout, HTTPError(404))

\* ---- C5
\* C5: in both request functions, when the first response is 401 and the
\* credential holds a refresh token, one refresh exchange is made; when it
\* succeeds the same HTTP call is replayed exactly once, carrying the new
\* bearer token; and when the replay succeeds the invocation returns
\* success: the executor returns with the attempt index where it was and
\* no backoff sleep taken for it, whatever retries is.
C5_RefreshAndReplayOn401 ==
    (CalledOnce /\ call.first = Response(401) /\ call.creds.refresh_token)
    => /\ call.mid \in {"ok", "fail"}
       /\ call.mid = "fail" => (Len(call.http) = 1 /\ call.replay = NoOutcome)
       /\ call.mid = "ok"
          => /\ Len(call.http) = 2
             /\ call.http[2].method = call.http[1].method
             /\ call.http[2].method = (IF action = "today" THEN "GET" ELSE "POST")
             /\ call.http[2].bearer = call.creds.token
             /\ call.http[2].bearer > call.http[1].bearer
             /\ call.replay \in HttpOutcomes
       /\ call.replay = Response(200)
          => /\ call.kind = "return"
             /\ pc = "done"
             /\ outcome = Returned
             /\ attempt = calls - 1
             /\ Len(sleeps) = calls - 1

C5_Witness ==
    /\ pc = "done" /\ action = "create" /\ retries = 0 /\ calls = 1
    /\ call.first = Response(401) /\ call.mid = "ok" /\ call.replay = Response(200)
    /\ Len(call.http) = 2 /\ attempt = 0 /\ sleeps = <<>>
    /\ outcome = Returned

\* ---- C6
\* C6: in every reachable state the token file holds a token at least as
\* fresh as the one of the last successful refresh or authorization.
C6_TokenFileFresh ==
    lastFresh > 0 => (tokenFile /= NoCreds /\ tokenFile.token >= lastFresh)

\* ---- C7
\* The token states of the credential store, read off the token file.
NoToken(f) == f = NoCreds
Usable(f) == Valid(f) \/ (f.expired /\ f.refresh_token)
ExpiredUnrefreshable(f) == f /= NoCreds /\ ~Usable(f)
ScopeInsufficient(f) == f /= NoCreds /\ Usable(f) /\ f.scopes = "insufficient"

\* C7: on the fetch and create paths, from the token states NoToken,
\* Expired-Unrefreshable and ScopeInsufficient the consent flow is never
\* started, no refresh is made and no HTTP request is ever sent; the
\* invocation is over with ConfigError (naming the credentials path) when
\* the credentials file is missing and with AuthError (run the authorize
\* action) otherwise, and the token file is as it was.
C7_RequestPathNeverPrompts ==
    (InFlight /\ (NoToken(credIn.file) \/ ExpiredUnrefreshable(credIn.file)
                                       \/ ScopeInsufficient(credIn.file)))
    => /\ ~credIn.allow
       /\ \A i \in 1..Len(credRun.log) : credRun.log[i] \notin {"flow", "read_credentials", "refresh", "write"}
       /\ httpCount = 0 /\ calls = 0 /\ call = NoCall
       /\ pc = "done"
       /\ credRun.kind = "raise"
       /\ outcome = Raised(credRun.error)
       /\ ~credIn.credsExists => (outcome.error = CredentialsNotFoundRequest /\ IsConfigError(outcome.error))
       /\ credIn.credsExists => (outcome.error = NotAuthorized /\ IsAuthError(outcome.error))
       /\ tokenFile = credIn.file

C7_Witness ==
    /\ pc = "done" /\ action = "create" /\ ScopeInsufficient(credIn.file) /\ Valid(credIn.file)
    /\ credIn.credsExists /\ outcome = Raised(NotAuthorized) /\ httpCount = 0

\* ---- C8
\* What the same call does from the NoToken state.
FromNoToken ==
    get_calendar_credentials(NoCreds, credIn.credsExists, credIn.allow, credIn.refreshOk,
                             credIn.flowOk, credIn.flowRefresh, credIn.tok)

\* C8: a run of _get_calendar_credentials that finds a valid token on which
\* has_scopes returns false ends as the same run from the NoToken state
\* ends: same error raised, or same consent flow, persist and return; the
\* token file is left as found exactly when the NoToken run leaves it
\* absent, and otherwise holds the same new token; the insufficient token is
\* neither returned nor refreshed.
C8_InsufficientScopeAsAbsent ==
    (pc /= "idle" /\ credIn.file /= NoCreds /\ Valid(credIn.file)
                  /\ credIn.file.scopes = "insufficient")
    => /\ credRun.kind = FromNoToken.kind
       /\ credRun.error = FromNoToken.error
       /\ credRun.creds = FromNoToken.creds
       /\ credRun.log = <<"load">> \o FromNoToken.log
       /\ (credRun.file = credIn.file) <=> (FromNoToken.file = NoCreds)
       /\ credRun.file /= credIn.file => credRun.file = FromNoToken.file
       /\ tokenFile = credRun.file
       /\ credRun.creds /= credIn.file
       /\ \A i \in 1..Len(credRun.log) : credRun.log[i] /= "refresh"
       /\ credRun.kind = "return" => (credIn.allow /\ credIn.credsExists /\ credIn.flowOk)

C8_Witness ==
    /\ pc = "done" /\ action = "auth" /\ Valid(credIn.file) /\ credIn.file.scopes = "insufficient"
    /\ credIn.file.refresh_token
    /\ credRun.kind = "return" /\ tokenFile = credRun.creds /\ tokenFile.scopes = "sufficient"
    /\ credRun.log = <<"load", "credentials_exists", "read_credentials", "flow", "write">>

\* ---- C9
ExpiredRefreshable(f) ==
    f /= NoCreds /\ f.expired /\ f.refresh_token /\ f.scopes = "sufficient"

\* C9: from a token that is expired, holds a refresh token and has
\* sufficient scopes, _get_calendar_credentials makes the refresh exchange,
\* then writes the refreshed token to the token file, then returns it, for
\* both values of allow_browser_auth and without touching the credentials
\* file or the consent flow; a failing exchange reaches the caller as an
\* AuthError with the token file as it was.
C9_RefreshPersistReturn ==
    (pc /= "idle" /\ ExpiredRefreshable(credIn.file))
    => /\ credIn.refreshOk
          => /\ credRun.kind = "return"
             /\ credRun.log = <<"load", "refresh", "write">>
             /\ credRun.creds = Refreshed(credIn.file, credIn.tok)
             /\ Valid(credRun.creds)
             /\ credRun.file = credRun.creds
             /\ tokenFile = credRun.creds
             /\ (action = "auth" => outcome = Returned)
       /\ ~credIn.refreshOk
          => /\ credRun.kind = "raise"
             /\ credRun.log = <<"load", "refresh">>
             /\ credRun.error = RefreshError /\ IsAuthError(credRun.error)
             /\ pc = "done" /\ outcome = Raised(credRun.error)
             /\ tokenFile = credIn.file

C9_Witness ==
    /\ pc = "loop" /\ action = "today" /\ ExpiredRefreshable(credIn.file) /\ credIn.refreshOk
    /\ credRun.log = <<"load", "refresh", "write">>
    /\ tokenFile = credRun.creds /\ tokenFile.token = credIn.file.token + 1 /\ ~tokenFile.expired

\* ---- C10
\* C10: a persisted token that is valid and whose scopes cover the required
\* ones is returned as it is for both values of allow_browser_auth: the run
\* only loads the token file (no refresh, no consent flow, no look at the
\* credentials file) and the token file is unchanged.
C10_ValidReturnedAsIs ==
    (pc /= "idle" /\ credIn.file /= NoCreds /\ Valid(credIn.file)
                  /\ credIn.file.scopes = "sufficient")
    => /\ credRun = CredResult("return", NoError, credIn.file, credIn.file, <<"load">>)
       /\ tokenFile = credIn.file
       /\ (action = "auth" => (pc = "done" /\ outcome = Returned))
       /\ (action /= "auth" /\ calls = 0) => (pc = "loop" /\ creds = credIn.file)

C10_Witness ==
    /\ pc = "done" /\ action = "auth" /\ credIn.allow /\ Valid(credIn.file)
    /\ credIn.file.scopes = "sufficient" /\ ~credIn.credsExists
    /\ credRun.log = <<"load">> /\ outcome = Returned /\ tokenFile = credIn.file

\* ---- C11
NeedsAuthorization(f) == NoToken(f) \/ ExpiredUnrefreshable(f) \/ ScopeInsufficient(f)

\* C11: on the authorize path, from a token that is neither valid nor
\* expired-refreshable with sufficient scopes: with the credentials file
\* missing the call fails with ConfigError, the consent flow is not started
\* and the token file is not written; with the file present the consent flow
\* is run and, when it yields a token, that token is written to the token
\* file and then returned, in that order.
C11_AuthorizeRunsConsentFlow ==
    (pc /= "idle" /\ credIn.allow /\ NeedsAuthorization(credIn.file))
    => LET steps == SubSeq(credRun.log, (IF credIn.file = NoCreds THEN 1 ELSE 2), Len(credRun.log))
       IN  /\ action = "auth" /\ pc = "done"
           /\ ~credIn.credsExists
              => /\ credRun.kind = "raise"
                 /\ credRun.error = CredentialsNotFoundAuth /\ IsConfigError(credRun.error)
                 /\ steps = <<"credentials_exists">>
                 /\ tokenFile = credIn.file
                 /\ outcome = Raised(credRun.error)
           /\ (credIn.credsExists /\ credIn.flowOk)
              => /\ credRun.kind = "return"
                 /\ steps = <<"credentials_exists", "read_credentials", "flow", "write">>
                 /\ credRun.creds = FlowCreds(credIn.tok, credIn.flowRefresh)
                 /\ tokenFile = credRun.creds
                 /\ outcome = Returned
           /\ (credIn.credsExists /\ ~credIn.flowOk)
              => /\ credRun.kind = "raise"
                 /\ steps = <<"credentials_exists", "read_credentials", "flow">>
                 /\ tokenFile = credIn.file

C11_Witness ==
    /\ pc = "done" /\ action = "auth" /\ credIn.allow /\ ExpiredUnrefreshable(credIn.file)
    /\ credIn.file.expired /\ credIn.credsExists /\ credIn.flowOk
    /\ credRun.log = <<"load", "credentials_exists", "read_credentials", "flow", "write">>
    /\ tokenFile = credRun.creds /\ Valid(tokenFile) /\ tokenFile /= credIn.file
    /\ output.prefix = "Authorization successful"

\* ---- C12
\* C12: every error ending an invocation is caught at the invocation
\* boundary: the invocation is over with a message string, and when the
\* error is a TransientError or an AuthError the message carries
\* troubleshooting hints, for each of the three actions.
C12_ErrorsCaughtWithHints ==
    (pc = "done" /\ outcome.kind = "raise")
    => /\ output.prefix /= ""
       /\ (IsTransientError(outcome) \/ IsAuthError(outcome.error)) => output.hint /= ""

\* ---- C18
ScopeCheckRaised(f) == f /= NoCreds /\ f.scopes = "raises"

\* C18: when has_scopes raises, the scopes count as sufficient: a valid
\* token is returned as it is, an expired token with a refresh token is
\* refreshed and persisted (or the failing exchange propagates), and the
\* not-authorized / consent-flow branch is reached only from a token that is
\* neither valid nor refreshable.
C18_ScopeCheckFailsOpen ==
    (pc /= "idle" /\ ScopeCheckRaised(credIn.file))
    => /\ has_required_scopes(credIn.file)
       /\ Valid(credIn.file)
          => /\ credRun = CredResult("return", NoError, credIn.file, credIn.file, <<"load">>)
             /\ tokenFile = credIn.file
       /\ (credIn.file.expired /\ credIn.file.refresh_token /\ credIn.refreshOk)
          => /\ credRun.kind = "return"
             /\ credRun.log = <<"load", "refresh", "write">>
             /\ credRun.creds = Refreshed(credIn.file, credIn.tok)
             /\ tokenFile = credRun.creds
       /\ (credIn.file.expired /\ credIn.file.refresh_token /\ ~credIn.refreshOk)
          => (credRun.kind = "raise" /\ credRun.error = RefreshError)
       /\ (credRun.error \in {NotAuthorized, CredentialsNotFoundRequest, CredentialsNotFoundAuth}
             \/ \E i \in 1..Len(credRun.log) : credRun.log[i] \in {"flow", "credentials_exists"})
          => ~Usable(credIn.file)

C18_Witness ==
    /\ pc = "loop" /\ action = "create" /\ ScopeCheckRaised(credIn.file) /\ Valid(credIn.file)
    /\ ~credIn.credsExists /\ credRun.kind = "return" /\ creds = credIn.file /\ calls = 0

\* ---- C19
\* C19: the token file is written only right after a successful refresh
\* exchange or a successful consent flow inside _get_calendar_credentials,
\* and the write is the last step of the run; a run that fails leaves the
\* token file exactly as it found it, and nothing later in the invocation
\* writes it.
C19_TokenFileWrittenOnlyOnSuccess ==
    pc /= "idle"
    => /\ tokenFile = credRun.file
       /\ credRun.kind = "raise"
          => /\ credRun.file = credIn.file
             /\ \A i \in 1..Len(credRun.log) : credRun.log[i] /= "write"
       /\ \A i \in 1..Len(credRun.log) :
             credRun.log[i] = "write"
             => /\ i = Len(credRun.log) /\ i > 1
                /\ credRun.log[i - 1] \in {"refresh", "flow"}
                /\ credRun.kind = "return"
                /\ credRun.file = credRun.creds
       /\ credRun.file /= credIn.file
          => (credRun.kind = "return" /\ credRun.log[Len(credRun.log)] = "write")

C19_Witness ==
    /\ pc = "done" /\ action = "auth" /\ credIn.allow /\ credIn.credsExists /\ ~credIn.flowOk
    /\ Valid(credIn.file) /\ credIn.file.scopes = "insufficient"
    /\ credRun.error = ConsentError /\ tokenFile = credIn.file

\* ---- C20
\* C20: within one fetch or create invocation the request function is
\* invoked at most retries+1 times, each invocation sends at most 2 HTTP
\* requests and makes at most 2 refresh exchanges, so at most 2*(retries+1)
\* HTTP requests are sent; a 401 still answered to the replay, or a 401 when
\* there is no refresh token, is not replayed inside the invocation but
\* raised as HTTPError(401), which the executor treats as a retryable
\* failure that uses up exactly one attempt.
RefreshesIn(c) == (IF c.pre = "none" THEN 0 ELSE 1) + (IF c.mid = "none" THEN 0 ELSE 1)

C20_BoundedRequestsPerInvocation ==
    InFlight
    => /\ calls <= retries + 1
       /\ Len(call.http) <= 2
       /\ RefreshesIn(call) <= 2
       /\ httpCount <= 2 * calls
       /\ httpCount <= 2 * (retries + 1)
       /\ (calls >= 1 /\ (call.replay = Response(401)
                          \/ (call.first = Response(401) /\ ~call.creds.refresh_token)))
          => /\ call.kind = "raise" /\ call.error = HTTPError(401)
             /\ Len(call.http) = (IF call.replay = Response(401) THEN 2 ELSE 1)
             /\ last_error = call.error
             /\ pc = "loop" => (attempt = calls /\ Len(sleeps) = calls /\ calls <= retries)
             /\ pc = "done" => (calls = retries + 1 /\ attempt = retries
                                /\ outcome = RequestFailed(retries, timeout, call.error))

C20_Witness ==
    /\ pc = "done" /\ action = "today" /\ retries = 1 /\ calls = 2 /\ httpCount = 4
    /\ call.replay = Response(401) /\ call.mid = "ok" /\ priorRetryable
    /\ outcome = RequestFailed(1, timeout, HTTPError(401))

\* ============================================== the scheduler, on its own
mainVars == <<tokenFile, credsFile, issued, lastFresh, pc, action, timeout, retries, attempt,
              calls, sleeps, last_error, creds, credRun, credIn, call, httpCount, outcome,
              output, priorRetryable>>

\* The tool between invocations, nothing stored yet.
MachineIdle ==
    /\ tokenFile = NoCreds
    /\ credsFile = FALSE
    /\ issued = 0
    /\ lastFresh = 0
    /\ pc = "idle"
    /\ action = "none"
    /\ timeout = 0
    /\ retries = 0
    /\ attempt = 0
    /\ calls = 0
    /\ sleeps = <<>>
    /\ last_error = NoError
    /\ creds = NoCreds
    /\ credRun = NoCredRun
    /\ credIn = NoCredIn
    /\ call = NoCall
    /\ httpCount = 0
    /\ outcome = NoOutcomeYet
    /\ output = NoOutput
    /\ priorRetryable = TRUE

\* Clock times handed to the scheduler: every hour, the minutes at the
\* edges and in the middle of the hour, and one hour and one minute
\* datetime.replace rejects.
ClockMinutes == {0, 30, 59}
ClockTimes ==
    [hour : 0..23, minute : ClockMinutes] \cup {[hour |-> 24, minute |-> 0], [hour |-> 12, minute |-> 60]}

\* Current local moments: early, mid-day and late, on and off the minute.
LocalOffsets == {480}
NowMoments ==
    {DateTime(0, h, m, sec, TRUE, off) : h \in {0, 12, 23}, m \in ClockMinutes,
                                         sec \in {0, 30}, off \in LocalOffsets}

ResolveInit ==
    /\ MachineIdle
    /\ calc \in [fn : {"resolve_local_datetimes"}, now : NowMoments, start_hm : ClockTimes,
                 end_hm : ClockTimes, applied : {FALSE}, out : {[kind |-> "none"]}]

ResolveApply ==
    /\ calc.fn = "resolve_local_datetimes"
    /\ ~calc.applied
    /\ calc' = [calc EXCEPT !.applied = TRUE,
                            !.out = resolve_local_datetimes(calc.now, calc.start_hm, calc.end_hm)]
    /\ UNCHANGED mainVars

ResolveNext == ResolveApply

ResolveSpec == ResolveInit /\ [][ResolveNext]_vars

Resolved ==
    /\ calc.fn = "resolve_local_datetimes" /\ calc.applied
    /\ ValidClock(calc.start_hm) /\ ValidClock(calc.end_hm)

\* Seconds since local midnight.
ClockSeconds(hm) == (hm.hour * 60 + hm.minute) * 60
NowSeconds(now) == (now.hour * 60 + now.minute) * 60 + now.second

\* ---- C13
\* C13: for valid clock times, the resolved start carries the start clock
\* time with seconds zero and the local offset; it is on today's date when
\* today at that time is strictly after now, on tomorrow's when it is at or
\* before now (equality included); so it is strictly after now and at most
\* one day after it.
C13_StartTodayOrTomorrow ==
    Resolved
    => LET now == calc.now
           st == calc.out.start
       IN  /\ calc.out.kind = "return"
           /\ st.hour = calc.start_hm.hour /\ st.minute = calc.start_hm.minute
           /\ st.second = 0 /\ st.aware /\ st.off = now.off
           /\ ClockSeconds(calc.start_hm) > NowSeconds(now) => st.day = now.day
           /\ ClockSeconds(calc.start_hm) <= NowSeconds(now) => st.day = now.day + 1
           /\ Instant(st) > Instant(now)
           /\ Instant(st) <= Instant(now) + 86400

C13_Witness ==
    /\ Resolved
    /\ calc.now = DateTime(0, 12, 30, 0, TRUE, 480)
    /\ calc.start_hm = [hour |-> 12, minute |-> 30]
    /\ calc.out.start = DateTime(1, 12, 30, 0, TRUE, 480)

\* ---- C14
\* C14: for valid clock times, the resolved end carries the end clock time;
\* it is on the calendar day of the resolved start when the end clock time
\* is later than the start clock time and on the following day otherwise
\* (equal clock times included); it is always strictly after the start.
C14_EndSameDayOrNext ==
    Resolved
    => LET st == calc.out.start
           en == calc.out.end
       IN  /\ calc.out.kind = "return"
           /\ en.hour = calc.end_hm.hour /\ en.minute = calc.end_hm.minute
           /\ en.second = 0 /\ en.aware /\ en.off = st.off
           /\ ClockSeconds(calc.end_hm) > ClockSeconds(calc.start_hm) => en.day = st.day
           /\ ClockSeconds(calc.end_hm) <= ClockSeconds(calc.start_hm) => en.day = st.day + 1
           /\ Instant(en) > Instant(st)

C14_Witness ==
    /\ Resolved
    /\ calc.start_hm = [hour |-> 23, minute |-> 0]
    /\ calc.end_hm = [hour |-> 23, minute |-> 0]
    /\ calc.now = DateTime(0, 12, 0, 30, TRUE, 480)
    /\ calc.out.start = DateTime(0, 23, 0, 0, TRUE, 480)
    /\ calc.out.end = DateTime(1, 23, 0, 0, TRUE, 480)

\* ================================================= the parser, on its own
\* Texts with a time range, by their parts: text before the range, the
\* start clock (with the time it denotes), optional blanks around the
\* separator, the end clock, then the tail: leading punctuation, the title
\* proper, an optional blank, an optional filler ending (with what of it
\* is to stay in the title) and optional trailing blanks.
TextPrefixes == {<<>>, <<"a", " ">>}
StartClocks ==
    {[text |-> <<"1", "7", ":", "3", "0">>, hm |-> [hour |-> 17, minute |-> 30]],
     [text |-> <<"9", ":", "0", "0">>, hm |-> [hour |-> 9, minute |-> 0]],
     [text |-> <<"0", "9", ":", "0", "5">>, hm |-> [hour |-> 9, minute |-> 5]]}
EndClocks ==
    {[text |-> <<"1", "9", ":", "0", "0">>, hm |-> [hour |-> 19, minute |-> 0]],
     [text |-> <<"1", "0", ":", "3", "0">>, hm |-> [hour |-> 10, minute |-> 30]],
     [text |-> <<"1", ":", "0", "0">>, hm |-> [hour |-> 1, minute |-> 0]]}
Blanks == {<<>>, <<" ">>}
TailLeads == {<<>>, <<" ">>, <<"fw,", " ">>, <<":">>}
TitleWords == {<<>>, <<"pao", "bu">>, <<"kai", "hui">>, <<"shi", "xiang", "kai", "hui">>}
TitleEndings ==
    {[text |-> <<>>, keep |-> <<>>],
     [text |-> <<"de", "shi", "xiang">>, keep |-> <<>>],
     [text |-> <<"shi", "xiang">>, keep |-> <<>>],
     [text |-> <<"shi", "jian">>, keep |-> <<>>],
     [text |-> <<"ri", "cheng">>, keep |-> <<>>],
     [text |-> <<"an", "pai">>, keep |-> <<>>],
     [text |-> <<"shi", "xiang", "an", "pai">>, keep |-> <<"shi", "xiang">>]}

TextParts ==
    [prefix : TextPrefixes, start : StartClocks, pad : Blanks, sep : Separators, end : EndClocks,
     lead : TailLeads, words : TitleWords, gap : Blanks, ending : TitleEndings, trail : Blanks]

TextOf(parts) ==
    parts.prefix \o parts.start.text \o parts.pad \o <<parts.sep>> \o parts.pad \o parts.end.text
    \o parts.lead \o parts.words \o parts.gap \o parts.ending.text \o parts.trail

\* Texts given as they are.
RunningText == <<"1", "7", ":", "3", "0", "-", "1", "9", ":", "0", "0", "pao", "bu">>
MeetingFillerFirstText == <<"9", ":", "0", "0", "~", "1", "0", ":", "3", "0", "de", "shi", "xiang", "kai", "hui">>
MeetingFillerLastText == <<"9", ":", "0", "0", "~", "1", "0", ":", "3", "0", "kai", "hui", "de", "shi", "xiang">>
NoTimeText == <<"n", "o", " ", "t", "i", "m", "e", " ", "h", "e", "r", "e">>
RawTexts ==
    {RunningText, MeetingFillerFirstText, MeetingFillerLastText, NoTimeText,
     <<"1", "1", "7", ":", "3", "0", "-", "1", "9", ":", "0", "0">>, <<"2", "5", ":", "0", "0", "-", "2", "6", ":", "0", "0", "x">>, <<"1", "7", ":", "3", "0", "/", "1", "9", ":", "0", "0", "pao", "bu">>,
     <<"1", "7", ":", "3", "0", "-", "1", "9">>, <<>>}

NoParts == [raw |-> TRUE]
ParseNow == DateTime(0, 12, 0, 30, TRUE, 480)

ParseInit ==
    /\ MachineIdle
    /\ \/ \E parts \in TextParts :
             calc = [fn |-> "parse_create_text", text |-> TextOf(parts), parts |-> parts,
                     now |-> ParseNow, applied |-> FALSE, out |-> [kind |-> "none"]]
       \/ \E text \in RawTexts :
             calc = [fn |-> "parse_create_text", text |-> text, parts |-> NoParts,
                     now |-> ParseNow, applied |-> FALSE, out |-> [kind |-> "none"]]

ParseApply ==
    /\ calc.fn = "parse_create_text"
    /\ ~calc.applied
    /\ calc' = [calc EXCEPT !.applied = TRUE, !.out = parse_create_text(calc.text, calc.now)]
    /\ UNCHANGED mainVars

ParseNext == ParseApply

ParseSpec == ParseInit /\ [][ParseNext]_vars

Parsed == calc.fn = "parse_create_text" /\ calc.applied
ParsedText(text) == Parsed /\ calc.text = text

\* The general rule: the title is the text after the range without its
\* leading punctuation and without one filler ending (a blank before what
\* stays of the ending stays too), "Untitled Event" when nothing is left;
\* start and end carry the clock times of the range.
C17_TitleRule ==
    (Parsed /\ calc.parts /= NoParts)
    => LET parts == calc.parts
           kept == parts.ending.keep
           expected == IF kept = <<>> \/ parts.words = <<>>
                       THEN parts.words \o kept
                       ELSE parts.words \o parts.gap \o kept
       IN  /\ calc.out.kind = "return"
           /\ calc.out.title = (IF expected = <<>> THEN UntitledEvent ELSE expected)
           /\ calc.out.start.hour = parts.start.hm.hour
           /\ calc.out.start.minute = parts.start.hm.minute
           /\ calc.out.end.hour = parts.end.hm.hour
           /\ calc.out.end.minute = parts.end.hm.minute

C17_RunningExample ==
    ParsedText(RunningText)
    => /\ calc.out.kind = "return"
       /\ calc.out.title = <<"pao", "bu">>
       /\ calc.out.start.hour = 17 /\ calc.out.start.minute = 30
       /\ calc.out.end.hour = 19 /\ calc.out.end.minute = 0

C17_NoTimeExample ==
    ParsedText(NoTimeText)
    => /\ calc.out.kind = "raise"
       /\ calc.out.error = "RuntimeError: Could not parse time range from text"

\* ---- C17
\* C17 as stated: the title rule, the running example, the no-time
\* example, and parse of 9:00~10:30 followed by the filler U+7684 U+4E8B
\* U+9879 and then U+5F00 U+4F1A giving the title U+5F00 U+4F1A.
C17_TitleAfterRangeAsStated ==
    /\ C17_TitleRule
    /\ C17_RunningExample
    /\ C17_NoTimeExample
    /\ ParsedText(MeetingFillerFirstText)
       => (calc.out.kind = "return" /\ calc.out.title = <<"kai", "hui">>)

\* C17, amended: the title rule, the running example and the no-time
\* example as stated; a filler is cut off only where it ends the title, so
\* the text with the filler before U+5F00 U+4F1A keeps it in the title, and
\* the text with the filler after U+5F00 U+4F1A gives the title U+5F00
\* U+4F1A.
C17_TitleAfterRange ==
    /\ C17_TitleRule
    /\ C17_RunningExample
    /\ C17_NoTimeExample
    /\ ParsedText(MeetingFillerFirstText)
       => (calc.out.kind = "return" /\ calc.out.title = <<"de", "shi", "xiang", "kai", "hui">>)
    /\ ParsedText(MeetingFillerLastText)
       => /\ calc.out.kind = "return" /\ calc.out.title = <<"kai", "hui">>
          /\ calc.out.start.hour = 9 /\ calc.out.start.minute = 0
          /\ calc.out.end.hour = 10 /\ calc.out.end.minute = 30

C17_Witness ==
    /\ ParsedText(MeetingFillerFirstText)
    /\ calc.out.title = <<"de", "shi", "xiang", "kai", "hui">>

\* ======================================== the create payload, on its own
\* Arguments of action=create. start and end are ISO strings with or
\* without an offset, malformed strings, or absent.
PayloadDays == {0, 1}
PayloadHours == {0, 8, 13, 23}
PayloadOffsets == {"", "Z", "+00:00", "+08:00", "-05:00"}
IsoArguments ==
    {IsoText("iso", day, hour, 0, 0, tz) : day \in PayloadDays, hour \in PayloadHours, tz \in PayloadOffsets}
    \cup {EmptyText, MalformedText}
TitleArguments == {<<>>, <<" ">>, <<"x">>}
OptionalArguments == {<<>>, <<"y">>}
TextArguments == {<<>>, RunningText, MeetingFillerLastText, NoTimeText}

PayloadInit ==
    /\ MachineIdle
    /\ \E title \in TitleArguments, start \in IsoArguments, end \in IsoArguments,
          location \in OptionalArguments, description \in OptionalArguments, text \in TextArguments :
          calc = [fn |-> "resolve_create_payload", title |-> title, start |-> start, end |-> end,
                  location |-> location, description |-> description, text |-> text,
                  now |-> ParseNow, applied |-> FALSE, out |-> [kind |-> "none"],
                  sent |-> FALSE, output |-> ""]

\* _create_event_output, line 164: the payload is resolved.
PayloadResolve ==
    /\ calc.fn = "resolve_create_payload"
    /\ ~calc.applied
    /\ calc' = [calc EXCEPT !.applied = TRUE,
                            !.out = resolve_create_payload(calc.title, calc.start, calc.end, calc.location,
                                                           calc.description, calc.text, calc.now)]
    /\ UNCHANGED mainVars

\* _create_event_output, line 165: a resolved payload goes to _create_event.
PayloadSend ==
    /\ calc.fn = "resolve_create_payload"
    /\ calc.applied /\ calc.out.kind = "return"
    /\ ~calc.sent
    /\ calc' = [calc EXCEPT !.sent = TRUE]
    /\ UNCHANGED mainVars

\* _create_event_output, lines 178-182: an exception of line 164 skips line
\* 165 and becomes the returned error text.
PayloadReject ==
    /\ calc.fn = "resolve_create_payload"
    /\ calc.applied /\ calc.out.kind = "raise"
    /\ calc.output = ""
    /\ calc' = [calc EXCEPT !.output = "Error"]
    /\ UNCHANGED mainVars

PayloadNext == PayloadResolve \/ PayloadSend \/ PayloadReject

PayloadSpec == PayloadInit /\ [][PayloadNext]_vars

\* The instant an ISO string with an offset denotes, in seconds.
UtcSeconds(value) ==
    LET ahead == CASE value.tz \in {"Z", "+00:00"} -> 0
                   [] value.tz = "+08:00" -> 8 * 3600
                   [] value.tz = "-05:00" -> 0 - 5 * 3600
    IN  ((value.day * 24 + value.hour) * 60 + value.minute) * 60 + value.second - ahead

HasInstant(value) == value.form = "iso" /\ value.tz /= ""
PayloadResolved == calc.fn = "resolve_create_payload" /\ calc.applied

\* ---- C15
\* C15: a payload that _resolve_create_payload returns has its end instant
\* strictly after its start instant, and carries the instants of the start
\* and end arguments that were given; when the given start and end denote
\* instants with end <= start (whatever their offsets, title, location,
\* description and text) the call raises; and no payload is handed to
\* _create_event unless one was returned.
C15_EndNotAfterStartRejected ==
    PayloadResolved
    => /\ calc.out.kind \in {"return", "raise"}
       /\ calc.out.kind = "return"
          => /\ HasInstant(calc.out.payload.start) /\ HasInstant(calc.out.payload.end)
             /\ UtcSeconds(calc.out.payload.end) > UtcSeconds(calc.out.payload.start)
             /\ calc.start /= EmptyText
                => (HasInstant(calc.start) /\ UtcSeconds(calc.out.payload.start) = UtcSeconds(calc.start))
             /\ calc.end /= EmptyText
                => (HasInstant(calc.end) /\ UtcSeconds(calc.out.payload.end) = UtcSeconds(calc.end))
       /\ (HasInstant(calc.start) /\ HasInstant(calc.end) /\ UtcSeconds(calc.end) <= UtcSeconds(calc.start))
          => calc.out.kind = "raise"
       /\ calc.sent => calc.out.kind = "return"
       /\ calc.out.kind = "raise" => ~calc.sent

\* Start 00:00Z and end 08:00+08:00 of the same day are one instant: the
\* call was rejected as an invalid time range.
C15_Witness ==
    /\ PayloadResolved
    /\ calc.title = <<"x">>
    /\ calc.start = IsoText("iso", 0, 0, 0, 0, "Z")
    /\ calc.end = IsoText("iso", 0, 8, 0, 0, "+08:00")
    /\ calc.out = [kind |-> "raise", error |-> "RuntimeError: Invalid time range: end must be later than start."]
    /\ calc.output = "Error"
    /\ ~calc.sent

\* ============================================ the event list, on its own
\* Events as the API returns them: a timed start with an offset, an
\* all-day date, or no start or end; the moment of formatting is 10:00:00
\* or 10:00:30 UTC.
FormatNows == {DateTime(0, 10, 0, 0, TRUE, 0), DateTime(0, 10, 0, 30, TRUE, 0)}
TimedStarts ==
    {IsoText("iso", 0, hour, minute, 0, "Z") : hour \in 9..13, minute \in {0, 20, 30, 59}}
    \cup {IsoText("iso", 0, 18, 0, 0, "+08:00"), IsoText("iso", 0, 19, 30, 0, "+08:00")}
EventTimes ==
    {[start |-> start, end |-> [start EXCEPT !.hour = start.hour + 1]] : start \in TimedStarts}
    \cup {[start |-> DateText(0), end |-> DateText(1)],
          [start |-> EmptyText, end |-> DateText(1)],
          [start |-> DateText(0), end |-> EmptyText]}
Events ==
    {[start |-> times.start, end |-> times.end, summary |-> "t", location |-> ""] : times \in EventTimes}
    \cup {[start |-> DateText(0), end |-> DateText(1), summary |-> "t", location |-> "L"]}
MaxEvents == 2
EventLists == UNION {[1..n -> Events] : n \in 0..MaxEvents}

FormatInit ==
    /\ MachineIdle
    /\ \E events \in EventLists, now \in FormatNows :
          calc = [fn |-> "format_events", events |-> events, now |-> now,
                  applied |-> FALSE, out |-> [kind |-> "none", lines |-> <<>>]]

FormatApply ==
    /\ calc.fn = "format_events"
    /\ ~calc.applied
    /\ calc' = [calc EXCEPT !.applied = TRUE, !.out = format_events(calc.events, calc.now)]
    /\ UNCHANGED mainVars

FormatNext == FormatApply

FormatSpec == FormatInit /\ [][FormatNext]_vars

Formatted == calc.fn = "format_events" /\ calc.applied
Listed == SelectSeq(calc.events, LAMBDA e : e.start /= EmptyText /\ e.end /= EmptyText)

\* Seconds from the moment of formatting (10:00 UTC plus its seconds) to
\* the start of a timed event; m minutes are 60 * m seconds.
SecondsUntil(event) == UtcSeconds(event.start) - (10 * 3600 + calc.now.second)

\* ---- C16
\* C16: every listed event has its line, in order. A timed event starting m
\* minutes from now is marked urgent for m < 30, soon for 30 <= m < 60,
\* upcoming for 60 <= m < 120 and not marked from 120 on; it has a
\* countdown exactly when 0 < m < 120, "Ym" below 60 and "Xh Ym" from 60
\* on, with X = m div 60 and Y = m mod 60 of the whole minutes of m; m <= 0
\* is urgent without countdown; an all-day event has the all-day marker
\* and no countdown.
C16_UrgencyAndCountdown ==
    Formatted
    => /\ Len(calc.out.lines) = Len(Listed)
       /\ \A i \in 1..Len(Listed) :
             LET event == Listed[i]
                 line == calc.out.lines[i]
                 s == SecondsUntil(event)
                 m == s \div 60
             IN  IF event.start.form = "iso"
                 THEN /\ line.timed
                      /\ line.marker = "[urgent]" <=> s < 30 * 60
                      /\ line.marker = "[soon]" <=> (30 * 60 <= s /\ s < 60 * 60)
                      /\ line.marker = "[upcoming]" <=> (60 * 60 <= s /\ s < 120 * 60)
                      /\ line.marker = "" <=> s >= 120 * 60
                      /\ line.countdown.shown <=> (0 < s /\ s < 120 * 60)
                      /\ line.countdown.shown
                         => IF m < 60
                            THEN line.countdown.form = "Ym" /\ line.countdown.mins = m
                            ELSE /\ line.countdown.form = "Xh Ym"
                                 /\ line.countdown.hours = m \div 60
                                 /\ line.countdown.mins = m % 60
                      /\ s = 20 * 60
                         => (line.marker = "[urgent]" /\ line.countdown.form = "Ym" /\ line.countdown.mins = 20)
                      /\ s = 90 * 60
                         => /\ line.marker = "[upcoming]" /\ line.countdown.form = "Xh Ym"
                            /\ line.countdown.hours = 1 /\ line.countdown.mins = 30
                      /\ s = 180 * 60 => (line.marker = "" /\ ~line.countdown.shown)
                      /\ s <= 0 => (line.marker = "[urgent]" /\ ~line.countdown.shown)
                 ELSE /\ ~line.timed
                      /\ line.marker = "[all-day]"
                      /\ ~line.countdown.shown

\* An event 90 minutes ahead, after an all-day event: upcoming, "1h 30m".
C16_Witness ==
    /\ Formatted
    /\ calc.now.second = 0
    /\ Len(calc.events) = 2
    /\ calc.events[1].start = DateText(0)
    /\ calc.events[2].start = IsoText("iso", 0, 11, 30, 0, "Z")
    /\ Len(calc.out.lines) = 2
    /\ calc.out.lines[1].marker = "[all-day]"
    /\ calc.out.lines[2].marker = "[upcoming]"
    /\ calc.out.lines[2].countdown = [shown |-> TRUE, form |-> "Xh Ym", hours |-> 1, mins |-> 30]

====
